---- MODULE Spec2Model ----
(***************************************************************************)
(* Model of cnosuke/mcp-fetch, package fetcher (httpFetcher):              *)
(*   trimContent   - the content window selector                          *)
(*   fetch / Fetch - one HTTP GET, content processing, trimming            *)
(*   FetchMultiple - parallel fetch of a URL list, followed by the         *)
(*                   character-budget allocation and reallocation          *)
(* and of the handlers of the fetch and fetch_multiple tools of package    *)
(* server, which validate a request and call Fetch and FetchMultiple.      *)
(*                                                                         *)
(* Strings of content are sequences of characters; the character at        *)
(* 0-based position i of a served body is the number i+1, so two windows   *)
(* of one content are equal exactly when they start and end at the same    *)
(* positions.  Go's int is a two's-complement integer of IntBits bits.     *)
(***************************************************************************)
EXTENDS Integers, Sequences, FiniteSets, TLC

\* ---------------------------------------------------------------- bounds
IntBits == 4            \* width of the machine integer of the model
MaxLen == 2             \* longest body a server sends
MaxURLs == 2            \* cfg.Fetch.MaxURLs; longest list FetchMultiple is passed
MaxBudget == 3          \* largest maxLength passed to FetchMultiple
DefaultMaxLength == 2   \* httpFetcher.defaultMaxLength as configured
MaxWorkers == 1         \* httpFetcher.maxWorkers as configured

\* ------------------------------------------------------- machine integer
IntMin == -(2 ^ (IntBits - 1))
IntMax == (2 ^ (IntBits - 1)) - 1
GoInt == IntMin..IntMax
\* Go's + on int: wraps around on overflow
Add(x, y) == ((x + y - IntMin) % (2 ^ IntBits)) + IntMin

\* ---------------------------------------------------------------- strings
\* The body of L characters a server sends
Chars(L) == [i \in 1..L |-> i]
\* The value standing for a run-time panic (slice bounds out of range)
Panic == <<-1>>
Min(x, y) == IF x < y THEN x ELSE y
Max(x, y) == IF x > y THEN x ELSE y

\* Go's content[lo:hi]: panics unless 0 <= lo <= hi <= len(content)
Slice(content, lo, hi) ==
  IF 0 <= lo /\ lo <= hi /\ hi <= Len(content)
  THEN SubSeq(content, lo + 1, hi)
  ELSE Panic

\* trimContent(content, startIndex, maxLength)
trimContent(content, startIndex, maxLength) ==
  LET contentLength == Len(content)
      start == IF startIndex < 0 THEN 0 ELSE startIndex
  IN  IF start >= contentLength THEN <<>>
      ELSE LET potentialEndIndex == Add(start, maxLength)
               endIndex == IF maxLength > 0 /\ potentialEndIndex < contentLength
                           THEN potentialEndIndex ELSE contentLength
           IN  Slice(content, start, endIndex)

\* ------------------------------------------------------------------ errors
\* An error value is the sequence of the pieces of its message; nil is <<>>
NilErr == <<>>
\* ierrors.Wrap(err, msg): nil for a nil err, else "msg: " followed by err
Wrap(err, msg) == IF err = NilErr THEN NilErr ELSE <<msg, ": ">> \o err

\* -------------------------------------------------------------------- URLs
\* URLs for which http.NewRequest fails to parse
Malformed == {"bad"}
\* url.URL.String() of the parsed request URL: "B" is a URL the parser
\* re-encodes (as it lower-cases a scheme), the others are kept as they are
URLString(u) == IF u = "B" THEN "b" ELSE u
\* The default redirect policy of fetch: stop at the 10th redirect
RedirectLimit == 10

HTMLType == "text/html"
PlainType == "text/plain"
\* strings.Contains(contentType, "text/html")
ContainsHTML(contentType) == contentType = HTMLType

\* What the network does with one GET: the redirect targets it answers with
\* in turn, whether the transport or the body read fails, and the final
\* response of the server (a pair of status code and content type, a body)
Behaviour(routes, answers, lens) ==
  {[route |-> rt, failure |-> fl, status |-> an[1], contentType |-> an[2],
    body |-> Chars(L)] :
     rt \in routes, fl \in {"none", "refused", "bodyread"}, an \in answers,
     L \in lens}

\* ------------------------------------------------------------------- fetch
\* The context messages of the three wrapped errors of fetch
CreateFailed == "failed to create request"
\* A failed client.Do reported with the message of a failed http.NewRequest
ExecuteFailedAsCreate == "failed to create request"
ExecuteFailed == "failed to execute request"
ReadFailed == "failed to read response body"

\* The fetchResponse of a failed fetch: only err is set
ErrResponse(err) ==
  [url |-> "", status |-> 0, body |-> <<>>, contentType |-> "",
   originalURL |-> "", err |-> err]

\* redirectChain as CheckRedirect records it: the first call puts the URL of
\* the first request in front, every call appends the URL redirected to
RedirectChain(urlStr, route) ==
  IF route = <<>> THEN <<>> ELSE <<URLString(urlStr)>> \o route

\* httpFetcher.fetch(urlStr) when the network behaves as net
fetch(urlStr, net) ==
  IF urlStr \in Malformed
  THEN ErrResponse(Wrap(<<"parse ", urlStr>>, CreateFailed))
  ELSE IF Len(net.route) >= RedirectLimit
  THEN ErrResponse(Wrap(<<"Get ", urlStr, ": stopped after 10 redirects">>,
                        ExecuteFailed))
  ELSE IF net.failure = "refused"
  THEN ErrResponse(Wrap(<<"Get ", urlStr, ": connection refused">>,
                        ExecuteFailed))
  ELSE IF net.failure = "bodyread"
  THEN ErrResponse(Wrap(<<"unexpected EOF">>, ReadFailed))
  ELSE LET redirectChain == RedirectChain(urlStr, net.route)
           finalURL == IF net.route = <<>> THEN URLString(urlStr)
                       ELSE net.route[Len(net.route)]
       IN  [url |-> finalURL,
            status |-> net.status,
            body |-> net.body,
            contentType |-> net.contentType,
            originalURL |-> IF Len(redirectChain) > 0 /\ redirectChain[1] # finalURL
                            THEN urlStr ELSE "",
            err |-> NilErr]

\* ------------------------------------------------------ content processing
\* What readability.Extract makes of a body: it fails, or it finds an article
\* with a title, whose Markdown drops the first character (the markup) of
\* the body
Extractions == {"fails", "article"}
TitleHeading == <<-2, -3, -4>>   \* "# ", the title, "\n\n"

\* processHTMLContent(body, urlStr) when readability.Extract behaves as ext
processHTMLContent(body, ext) ==
  IF ext = "fails" THEN body
  ELSE TitleHeading \o (IF body = <<>> THEN <<>> ELSE Tail(body))

\* The processing of a body with the branch on raw left out
ProcessedContentIgnoringRaw(raw, res, ext) ==
  IF ContainsHTML(res.contentType) THEN processHTMLContent(res.body, ext)
  ELSE res.body

\* The content after processing: the branches on raw and on the content type
\* of Fetch and of FetchMultiple
ProcessedContent(raw, res, ext) ==
  IF raw THEN res.body
  ELSE IF ContainsHTML(res.contentType) THEN processHTMLContent(res.body, ext)
  ELSE res.body

\* What the direct conversion of a whole HTML body to Markdown does: it
\* fails, or it converts, the Markdown of a body being the body with its
\* first character (the markup) replaced
Conversions == {"fails", "converts"}
MarkdownMark == <<-5>>
\* FetchServer.convertHTMLToMarkdown(htmlContent) when the converter behaves
\* as conv: the Markdown and a nil error, or the input and an error
convertHTMLToMarkdown(htmlContent, conv) ==
  IF conv = "fails"
  THEN [markdown |-> htmlContent,
        err |-> Wrap(<<"conversion failed">>, "failed to convert HTML to Markdown")]
  ELSE [markdown |-> IF htmlContent = <<>> THEN <<>>
                     ELSE MarkdownMark \o Tail(htmlContent),
        err |-> NilErr]

\* ------------------------------------------------------------------- state
VARIABLES
  pc,                 \* where the calling goroutine is
  tcArgs,             \* trimContent: the arguments of the call
  tcResult,           \* trimContent: the string returned, or Panic
  fArgs,              \* Fetch: urlStr, maxLength, startIndex, raw
  fResp,              \* Fetch: resp, the fetchResponse of f.fetch
  fRedirects,         \* Fetch: the redirects the servers answered the GET with
  fProcessed,         \* Fetch: processedContent
  fRet,               \* Fetch: the returned response and error
  urls,               \* FetchMultiple: the URL list passed
  argMaxLength,       \* FetchMultiple: maxLength as passed
  raw,                \* FetchMultiple: raw
  maxLength,          \* FetchMultiple: maxLength after the default is applied
  workers,            \* FetchMultiple: "running" or "done" for each goroutine
  requests,           \* FetchMultiple: the GETs issued for each index so far
  results,            \* FetchMultiple: results[index], Nil until written
  processedResults,   \* FetchMultiple: processedResults
  finalErrors,        \* FetchMultiple: finalErrors
  initialAllocation,  \* FetchMultiple: initialAllocation
  totalUsed,          \* FetchMultiple: totalUsed
  beneficiaries,      \* FetchMultiple: indexes of processedResults
  remainingChars,     \* FetchMultiple: remainingChars
  perURLReallocation, \* FetchMultiple: perURLReallocation
  finalResponse,      \* FetchMultiple: the response returned
  retErr,             \* FetchMultiple: the error returned
  tool,               \* tool handler: the arguments of the request served
  toolResult,         \* tool handler: the CallToolResult returned
  checkRedirect,      \* f.client.CheckRedirect: 0 for nil, i for the closure
                      \* installed by the fetch of the goroutine of index i
  origCheckRedirect,  \* fetch: origCheckRedirect of the goroutine of each index
  jobs,               \* FetchMultipleURLs: the URLs in the jobs channel
  nWorkers            \* FetchMultipleURLs: nWorkers

vars == <<pc, tcArgs, tcResult, fArgs, fResp, fProcessed, fRet, urls,
          argMaxLength, raw, maxLength, workers, results, processedResults,
          finalErrors, initialAllocation, totalUsed, beneficiaries,
          remainingChars, perURLReallocation, finalResponse, retErr,
          requests, tool, toolResult, fRedirects, checkRedirect,
          origCheckRedirect, jobs, nWorkers>>

trimVars == <<tcArgs, tcResult>>
fetchVars == <<fArgs, fResp, fRedirects, fProcessed, fRet>>
toolVars == <<tool, toolResult>>
clientVars == <<checkRedirect, origCheckRedirect>>
poolVars == <<jobs, nWorkers>>
multiVars == <<urls, argMaxLength, raw, maxLength, workers, requests, results,
               processedResults, finalErrors, initialAllocation, totalUsed,
               beneficiaries, remainingChars, perURLReallocation,
               finalResponse, retErr>>

\* A nil pointer
Nil == [nil |-> TRUE]
\* A map without entries
EmptyMap == [k \in {} |-> <<>>]
\* Go's / on int: truncates towards zero
GoDiv(x, y) ==
  IF (x >= 0) = (y > 0) THEN (IF x >= 0 THEN x ELSE -x) \div (IF y > 0 THEN y ELSE -y)
  ELSE -((IF x >= 0 THEN x ELSE -x) \div (IF y > 0 THEN y ELSE -y))

Init ==
  /\ pc = "idle"
  /\ tcArgs = Nil /\ tcResult = <<>>
  /\ fArgs = Nil /\ fResp = Nil /\ fRedirects = <<>> /\ fProcessed = <<>>
  /\ fRet = [resp |-> Nil, err |-> NilErr]
  /\ urls = <<>> /\ argMaxLength = 0 /\ raw = FALSE /\ maxLength = 0
  /\ workers = <<>> /\ requests = <<>> /\ results = <<>>
  /\ processedResults = <<>> /\ finalErrors = EmptyMap
  /\ initialAllocation = 0 /\ totalUsed = 0 /\ beneficiaries = <<>>
  /\ remainingChars = 0 /\ perURLReallocation = 0
  /\ finalResponse = Nil /\ retErr = NilErr
  /\ tool = Nil /\ toolResult = Nil
  /\ checkRedirect = 0 /\ origCheckRedirect = <<>>
  /\ jobs = <<>> /\ nWorkers = 0

\* ------------------------------------------------------------- trimContent
\* The inputs of the calls of trimContent that are checked
TrimContents == {Chars(L) : L \in 0..MaxLen}

\* A call of trimContent(content, startIndex, maxLength)
TrimCall(content, startIndex, ml) ==
  /\ pc = "idle"
  /\ tcArgs' = [content |-> content, startIndex |-> startIndex, maxLength |-> ml]
  /\ pc' = "trim"
  /\ UNCHANGED <<tcResult, fetchVars, multiVars, toolVars, clientVars, poolVars>>

\* trimContent runs: it returns its substring, or the slice expression panics
TrimReturn ==
  /\ pc = "trim"
  /\ tcResult' = trimContent(tcArgs.content, tcArgs.startIndex, tcArgs.maxLength)
  /\ pc' = IF tcResult' = Panic THEN "trimPanicked" ELSE "trimReturned"
  /\ UNCHANGED <<tcArgs, fetchVars, multiVars, toolVars, clientVars, poolVars>>

NextTrim ==
  \/ \E content \in TrimContents, startIndex \in GoInt, ml \in GoInt :
       TrimCall(content, startIndex, ml)
  \/ TrimReturn

SpecTrim == Init /\ [][NextTrim]_vars

\* ------------------------------------------------------------------- Fetch
\* The URLs passed to Fetch, and what the network may do with a GET of Fetch
FetchURLs == {"a", "B", "bad"}
FetchNetwork == Behaviour({<<>>, <<"r">>, <<"r", "a">>},
                          {200, 404} \X {PlainType, HTMLType}, {0, MaxLen})

\* The entry into Fetch(urlStr, maxLength, startIndex, raw)
StartFetch(urlStr, ml, startIndex, r) ==
  /\ fArgs' = [urlStr |-> urlStr, maxLength |-> ml, startIndex |-> startIndex,
               raw |-> r]
  /\ pc' = "fetch"
  /\ UNCHANGED <<fResp, fRedirects, fProcessed, fRet, trimVars, clientVars, poolVars, multiVars>>

\* A call of Fetch(urlStr, maxLength, startIndex, raw) from outside the handler
FetchCall(urlStr, ml, startIndex, r) ==
  /\ pc = "idle"
  /\ StartFetch(urlStr, ml, startIndex, r)
  /\ UNCHANGED toolVars

\* resp := f.fetch(urlStr), and the return of resp.err when it is set
FetchDo(net) ==
  /\ pc = "fetch"
  /\ fResp' = fetch(fArgs.urlStr, net)
  /\ fRedirects' = IF fArgs.urlStr \in Malformed THEN <<>> ELSE net.route
  /\ IF fResp'.err # NilErr
     THEN /\ fRet' = [resp |-> Nil, err |-> fResp'.err]
          /\ pc' = "fetchReturned"
     ELSE /\ fRet' = fRet
          /\ pc' = "fetchProcess"
  /\ UNCHANGED <<fArgs, fProcessed, trimVars, clientVars, poolVars, multiVars, toolVars>>

\* Fetch trimming from the start of the content whatever startIndex is
FetchTrimArgsFromStart(args) == <<0, args.maxLength>>

\* The arguments Fetch passes to trimContent
FetchTrimArgs(args) == <<args.startIndex, args.maxLength>>

\* The processing of the body, the trimming and the return of the response
FetchFinish(ext) ==
  /\ pc = "fetchProcess"
  /\ fProcessed' = ProcessedContent(fArgs.raw, fResp, ext)
  /\ LET trimmedContent == trimContent(fProcessed', FetchTrimArgs(fArgs)[1],
                                       FetchTrimArgs(fArgs)[2])
     IN  IF trimmedContent = Panic
         THEN /\ pc' = "fetchPanicked"
              /\ fRet' = fRet
         ELSE /\ pc' = "fetchReturned"
              /\ fRet' = [resp |-> [URL |-> fArgs.urlStr,
                                    ContentType |-> fResp.contentType,
                                    Content |-> trimmedContent,
                                    StatusCode |-> fResp.status,
                                    OriginalURL |-> fResp.originalURL],
                          err |-> NilErr]
  /\ UNCHANGED <<fArgs, fResp, fRedirects, trimVars, clientVars, poolVars, multiVars, toolVars>>

NextFetch ==
  \/ \E urlStr \in FetchURLs, ml \in GoInt, startIndex \in GoInt, r \in BOOLEAN :
       FetchCall(urlStr, ml, startIndex, r)
  \/ \E net \in FetchNetwork : FetchDo(net)
  \/ \E ext \in Extractions : FetchFinish(ext)

SpecFetch == Init /\ [][NextFetch]_vars

\* Fetch of URLs that are redirected up to, and beyond, the redirect limit
RedirectRoutes ==
  {[i \in 1..n |-> "r"] :
     n \in {0, RedirectLimit - 1, RedirectLimit, RedirectLimit + 1}}
RedirectNetwork == Behaviour(RedirectRoutes,
                             {<<200, PlainType>>, <<404, HTMLType>>}, {0, MaxLen})

NextRedirect ==
  \/ \E urlStr \in FetchURLs, ml \in 0..MaxLen, r \in BOOLEAN :
       FetchCall(urlStr, ml, 0, r)
  \/ \E net \in RedirectNetwork : FetchDo(net)
  \/ \E ext \in Extractions : FetchFinish(ext)

SpecRedirect == Init /\ [][NextRedirect]_vars

\* ----------------------------------------------------------- FetchMultiple
\* The URLs passed to FetchMultiple, the budgets, and what the network may
\* do with a GET of one of its goroutines
MultiURLs == {"a", "b", "bad"}
Budgets == (-1)..MaxBudget
MultiNetwork == Behaviour({<<>>, <<"a">>},
                          {<<200, HTMLType>>, <<404, PlainType>>}, {0, MaxLen})
URLLists == UNION {[1..n -> MultiURLs] : n \in 0..MaxURLs}
\* The URL lists of the requests to the fetch_multiple tool
ToolURLLists == UNION {[1..n -> MultiURLs] : n \in 0..(MaxURLs + 1)}

\* The largest member of a non-empty set of integers
Last(S) == CHOOSE i \in S : \A j \in S : j <= i
\* The sum of f[i] over the indexes of the sequence f
RECURSIVE SumSeq(_)
SumSeq(f) == IF f = <<>> THEN 0 ELSE f[1] + SumSeq(Tail(f))
\* The members of S among i..n, in increasing order
RECURSIVE SelectIdx(_, _, _)
SelectIdx(S, i, n) ==
  IF i > n THEN <<>>
  ELSE (IF i \in S THEN <<i>> ELSE <<>>) \o SelectIdx(S, i + 1, n)

\* FetchMultiple leaving a maxLength of 0 as it is
maxLengthOrDefaultBelowZero(ml) == IF ml < 0 THEN DefaultMaxLength ELSE ml

\* maxLength after "if maxLength <= 0 { maxLength = f.defaultMaxLength }"
maxLengthOrDefault(ml) == IF ml <= 0 THEN DefaultMaxLength ELSE ml

\* The entry into FetchMultiple(urls, maxLength, raw): the default budget,
\* the results slice, and one goroutine started per URL
StartFetchMultiple(us, ml, r) ==
  /\ urls' = us
  /\ argMaxLength' = ml
  /\ raw' = r
  /\ maxLength' = maxLengthOrDefault(ml)
  /\ results' = [i \in 1..Len(us) |-> Nil]
  /\ workers' = [i \in 1..Len(us) |-> "running"]
  /\ requests' = [i \in 1..Len(us) |-> 0]
  /\ pc' = "wait"
  /\ UNCHANGED <<processedResults, finalErrors, initialAllocation, totalUsed,
                 beneficiaries, remainingChars, perURLReallocation,
                 finalResponse, retErr, trimVars, clientVars, poolVars, fetchVars>>

\* A call of FetchMultiple(urls, maxLength, raw) from outside the handler
CallFetchMultiple(us, ml, r) ==
  /\ pc = "idle"
  /\ StartFetchMultiple(us, ml, r)
  /\ UNCHANGED toolVars

\* mcp.NewToolResultError(text) and mcp.NewToolResultText(text)
NewToolResultError(text) == [IsError |-> TRUE, Text |-> text]
NewToolResultText(text) == [IsError |-> FALSE, Text |-> text]

\* maxLength of the fetch_multiple handler after
\* "if maxLength <= 0 { maxLength = cfg.Fetch.DefaultMaxLength }"
handlerMaxLength(ml) == IF ml <= 0 THEN DefaultMaxLength ELSE ml

\* A handler that rejects a list of exactly maxURLs URLs as well
tooManyURLsFromMax(us) == Len(us) >= MaxURLs

\* "len(urls) > maxURLs" of the fetch_multiple handler
tooManyURLs(us) == Len(us) > MaxURLs

\* The handler of the fetch_multiple tool up to its call of FetchMultiple:
\* the validation of the number of URLs, the default of max_length, the call
FetchMultipleTool(us, ml, r) ==
  /\ pc = "idle"
  /\ tool' = [name |-> "fetch_multiple", urls |-> us, maxLength |-> ml,
              raw |-> r]
  /\ IF Len(us) = 0
     THEN /\ toolResult' = NewToolResultError(<<"at least one URL is required">>)
          /\ pc' = "toolReturned"
          /\ UNCHANGED <<multiVars, trimVars, clientVars, poolVars, fetchVars>>
     ELSE IF tooManyURLs(us)
     THEN /\ toolResult' =
               NewToolResultError(<<"too many URLs: maximum allowed is ", MaxURLs>>)
          /\ pc' = "toolReturned"
          /\ UNCHANGED <<multiVars, trimVars, clientVars, poolVars, fetchVars>>
     ELSE /\ toolResult' = toolResult
          /\ StartFetchMultiple(us, handlerMaxLength(ml), r)

\* Every goroutine writing the first slot of results
SlotOfFirst(index) == 1

\* The slot of results the goroutine started with index writes
Slot(index) == index

\* A goroutine that fetches its URL a second time
AfterFetchAndRetry(n) == n + 2

\* The number of GETs issued for an index after the one call of f.fetch of
\* its goroutine, n having been issued before
AfterFetch(n) == n + 1

\* The goroutine of index i: resp := f.fetch(urlStr); results[index] = resp;
\* wg.Done()
WorkerFetch(i, net) ==
  /\ pc = "wait"
  /\ i \in DOMAIN workers
  /\ workers[i] = "running"
  /\ results' = [results EXCEPT ![Slot(i)] = fetch(urls[i], net)]
  /\ workers' = [workers EXCEPT ![i] = "done"]
  /\ requests' = [requests EXCEPT ![i] = AfterFetch(@)]
  /\ UNCHANGED <<pc, urls, argMaxLength, raw, maxLength, processedResults,
                 finalErrors, initialAllocation, totalUsed, beneficiaries,
                 remainingChars, perURLReallocation, finalResponse, retErr,
                 trimVars, clientVars, poolVars, fetchVars, toolVars>>

\* The key under which the loop over results records the failure of index i
ErrorKey(us, res, i) == IF res[i] = Nil THEN us[i] ELSE res[i].url

\* The indexes of results that the loop over results puts into finalErrors
FailedIdx(res) == {i \in DOMAIN res : res[i] = Nil \/ res[i].err # NilErr}

\* finalErrors after the loop over results
BuildErrors(us, res) ==
  [k \in {ErrorKey(us, res, i) : i \in FailedIdx(res)} |->
     LET i == Last({j \in FailedIdx(res) : ErrorKey(us, res, j) = k})
     IN  IF res[i] = Nil THEN <<"internal error: nil initial result">>
         ELSE res[i].err]

\* wg.Wait() returning without waiting for any goroutine
WaitNotWaiting(w) == TRUE

\* wg.Wait() returns: every goroutine added to the group has called wg.Done()
Wait(w) == \A i \in DOMAIN w : w[i] = "done"

\* wg.Wait() returns, then the loop over results: failures go to finalErrors,
\* the processed content of the others is appended to processedResults
ProcessResults(ext) ==
  /\ pc = "wait"
  /\ Wait(workers)
  /\ finalErrors' = BuildErrors(urls, results)
  /\ LET ok == SelectIdx((DOMAIN results) \ FailedIdx(results), 1, Len(results))
     IN  processedResults' =
           [k \in 1..Len(ok) |->
              [URL |-> results[ok[k]].url,
               FullContent |-> ProcessedContent(raw, results[ok[k]], ext[ok[k]]),
               ContentType |-> results[ok[k]].contentType,
               StatusCode |-> results[ok[k]].status,
               OriginalIndex |-> ok[k] - 1,
               FinalTrimmedContent |-> <<>>,
               WasTruncated |-> FALSE]]
  /\ pc' = "allocate"
  /\ UNCHANGED <<urls, argMaxLength, raw, maxLength, workers, requests, results,
                 initialAllocation, totalUsed, beneficiaries, remainingChars,
                 perURLReallocation, finalResponse, retErr, trimVars, clientVars, poolVars, fetchVars, toolVars>>

\* initialAllocation: the budget divided among the successful fetches
InitialAllocation(ml, numSuccessful) ==
  IF numSuccessful > 0 THEN GoDiv(ml, numSuccessful) ELSE 0

\* The initial trimming: initialAllocation, the first trim of every processed
\* result, totalUsed and the beneficiaries
Allocate ==
  /\ pc = "allocate"
  /\ initialAllocation' = InitialAllocation(maxLength, Len(processedResults))
  /\ processedResults' =
       [k \in DOMAIN processedResults |->
          [processedResults[k] EXCEPT
             !.FinalTrimmedContent =
                trimContent(processedResults[k].FullContent, 0, initialAllocation'),
             !.WasTruncated =
                Len(processedResults[k].FullContent) > initialAllocation']]
  /\ totalUsed' = SumSeq([k \in DOMAIN processedResults |->
                            Len(processedResults'[k].FinalTrimmedContent)])
  /\ beneficiaries' =
       SelectIdx({k \in DOMAIN processedResults :
                    Len(processedResults[k].FullContent) > initialAllocation'},
                 1, Len(processedResults))
  /\ pc' = "reallocate"
  /\ UNCHANGED <<urls, argMaxLength, raw, maxLength, workers, requests, results,
                 finalErrors, remainingChars, perURLReallocation,
                 finalResponse, retErr, trimVars, clientVars, poolVars, fetchVars, toolVars>>

\* perURLReallocation rounded up, which hands out the remainder as well
PerURLReallocationRoundedUp(remaining, numBeneficiaries) ==
  GoDiv(remaining + numBeneficiaries - 1, numBeneficiaries)

\* perURLReallocation: the share of the remaining characters of a beneficiary
PerURLReallocation(remaining, numBeneficiaries) ==
  GoDiv(remaining, numBeneficiaries)

\* targetLength of a beneficiary
TargetLength(allocation, reallocation) == allocation + reallocation

\* The reallocation: remainingChars, and when characters remain and there are
\* beneficiaries, one loop over the beneficiaries that trims the full content
\* of each to targetLength
Reallocate ==
  /\ pc = "reallocate"
  /\ remainingChars' = maxLength - totalUsed
  /\ IF remainingChars' > 0 /\ Len(beneficiaries) > 0
     THEN /\ perURLReallocation' =
               PerURLReallocation(remainingChars', Len(beneficiaries))
          /\ LET isB(k) == \E b \in DOMAIN beneficiaries : beneficiaries[b] = k
                 finalTrimmed(k) ==
                   trimContent(processedResults[k].FullContent, 0,
                               TargetLength(initialAllocation, perURLReallocation'))
                 added(k) ==
                   Max(0, Len(finalTrimmed(k))
                          - Len(processedResults[k].FinalTrimmedContent))
             IN  /\ processedResults' =
                      [k \in DOMAIN processedResults |->
                         IF isB(k)
                         THEN [processedResults[k] EXCEPT
                                 !.FinalTrimmedContent = finalTrimmed(k)]
                         ELSE processedResults[k]]
                 /\ totalUsed' = totalUsed
                                 + SumSeq([b \in DOMAIN beneficiaries |->
                                             added(beneficiaries[b])])
     ELSE UNCHANGED <<perURLReallocation, processedResults, totalUsed>>
  /\ pc' = "build"
  /\ UNCHANGED <<urls, argMaxLength, raw, maxLength, workers, requests, results,
                 finalErrors, initialAllocation, beneficiaries, finalResponse,
                 retErr, trimVars, clientVars, poolVars, fetchVars, toolVars>>

\* finalResponse.Responses after the loop over processedResults
BuildResponses(prs) ==
  [u \in {prs[k].URL : k \in DOMAIN prs} |->
     LET k == Last({j \in DOMAIN prs : prs[j].URL = u})
     IN  [URL |-> prs[k].URL,
          ContentType |-> prs[k].ContentType,
          Content |-> prs[k].FinalTrimmedContent,
          StatusCode |-> prs[k].StatusCode,
          OriginalURL |-> ""]]

\* The final response is built and returned with a nil error
ReturnMultiple ==
  /\ pc = "build"
  /\ finalResponse' = [Responses |-> BuildResponses(processedResults),
                       Errors |-> finalErrors]
  /\ retErr' = NilErr
  /\ pc' = "returned"
  /\ UNCHANGED <<urls, argMaxLength, raw, maxLength, workers, requests, results,
                 processedResults, finalErrors, initialAllocation, totalUsed,
                 beneficiaries, remainingChars, perURLReallocation,
                 trimVars, clientVars, poolVars, fetchVars, toolVars>>

\* The handler of the fetch_multiple tool after FetchMultiple returned: the
\* error result for an error, else the response marshalled to JSON
FetchMultipleToolReturn ==
  /\ pc = "returned"
  /\ tool # Nil
  /\ toolResult' =
       IF retErr # NilErr
       THEN NewToolResultError(<<"failed to fetch multiple URLs: ">> \o retErr)
       ELSE NewToolResultText(finalResponse)
  /\ pc' = "toolReturned"
  /\ UNCHANGED <<tool, multiVars, trimVars, clientVars, poolVars, fetchVars>>

Next ==
  \/ \E us \in URLLists, ml \in Budgets, r \in BOOLEAN :
       CallFetchMultiple(us, ml, r)
  \/ \E i \in 1..MaxURLs, net \in MultiNetwork : WorkerFetch(i, net)
  \/ \E ext \in [DOMAIN results -> Extractions] : ProcessResults(ext)
  \/ Allocate
  \/ Reallocate
  \/ ReturnMultiple

Spec == Init /\ [][Next]_vars

\* ------------------------------------------- fetch and the shared client
\* The goroutine of index i runs fetch up to client.Do: a URL that cannot be
\* parsed ends the fetch with its error; else origCheckRedirect is saved and
\* the closure of this fetch is installed in the client of the fetcher
FetchInstallCheckRedirect(i) ==
  /\ pc = "wait"
  /\ i \in DOMAIN workers
  /\ workers[i] = "running"
  /\ IF urls[i] \in Malformed
     THEN /\ results' = [results EXCEPT
                           ![Slot(i)] = fetch(urls[i],
                                              CHOOSE net \in MultiNetwork : TRUE)]
          /\ workers' = [workers EXCEPT ![i] = "done"]
          /\ requests' = [requests EXCEPT ![i] = AfterFetch(@)]
          /\ UNCHANGED clientVars
     ELSE /\ origCheckRedirect' = (i :> checkRedirect) @@ origCheckRedirect
          /\ checkRedirect' = i
          /\ workers' = [workers EXCEPT ![i] = "doing"]
          /\ UNCHANGED <<results, requests>>
  /\ UNCHANGED <<pc, urls, argMaxLength, raw, maxLength, processedResults,
                 finalErrors, initialAllocation, totalUsed, beneficiaries,
                 remainingChars, perURLReallocation, finalResponse, retErr,
                 trimVars, fetchVars, toolVars, poolVars>>

\* The goroutine of index i runs the rest of fetch: client.Do, the restoring
\* of CheckRedirect to the value saved, the reading of the body; then it
\* writes results[index]
FetchDoAndRestore(i, net) ==
  /\ pc = "wait"
  /\ i \in DOMAIN workers
  /\ workers[i] = "doing"
  /\ checkRedirect' = origCheckRedirect[i]
  /\ results' = [results EXCEPT ![Slot(i)] = fetch(urls[i], net)]
  /\ workers' = [workers EXCEPT ![i] = "done"]
  /\ requests' = [requests EXCEPT ![i] = AfterFetch(@)]
  /\ UNCHANGED <<pc, urls, argMaxLength, raw, maxLength, processedResults,
                 finalErrors, initialAllocation, totalUsed, beneficiaries,
                 remainingChars, perURLReallocation, finalResponse, retErr,
                 origCheckRedirect, trimVars, fetchVars, toolVars, poolVars>>

\* What the network may do with a GET of a goroutine taken in two steps
ClientNetwork == Behaviour({<<>>, <<"a">>}, {<<200, PlainType>>}, {MaxLen})

\* FetchMultiple with the fetch of each goroutine taken in its two steps
NextClient ==
  \/ \E us \in URLLists : CallFetchMultiple(us, DefaultMaxLength, TRUE)
  \/ \E i \in 1..MaxURLs : FetchInstallCheckRedirect(i)
  \/ \E i \in 1..MaxURLs, net \in ClientNetwork : FetchDoAndRestore(i, net)
  \/ \E ext \in [DOMAIN results -> Extractions] : ProcessResults(ext)
  \/ Allocate
  \/ Reallocate
  \/ ReturnMultiple

SpecClient == Init /\ [][NextClient]_vars

\* The scheduling of a call: every goroutine started keeps running, every
\* GET ends (with a response, an error or the timeout of the client), and
\* the calling goroutine goes on once wg.Wait() has returned
ClientFairness ==
  /\ \A i \in 1..MaxURLs :
       /\ WF_vars(FetchInstallCheckRedirect(i))
       /\ WF_vars(\E net \in ClientNetwork : FetchDoAndRestore(i, net))
  /\ WF_vars(\E ext \in [DOMAIN results -> Extractions] : ProcessResults(ext))
  /\ WF_vars(Allocate) /\ WF_vars(Reallocate) /\ WF_vars(ReturnMultiple)

SpecClientFair == SpecClient /\ ClientFairness

\* ------------------------------------------ FetchServer.FetchMultipleURLs
\* FetchServer.FetchURL(url) when the network behaves as net and the
\* Markdown converter as conv: the response and the error returned
FetchURL(url, net, conv) ==
  IF url \in Malformed
  THEN [res |-> Nil, err |-> Wrap(<<"parse ", url>>, CreateFailed)]
  ELSE IF Len(net.route) >= RedirectLimit \/ net.failure = "refused"
  THEN [res |-> Nil,
        err |-> Wrap(<<"Get ", url, ": connection refused">>, ExecuteFailed)]
  ELSE IF net.failure = "bodyread"
  THEN [res |-> Nil, err |-> Wrap(<<"unexpected EOF">>, ReadFailed)]
  ELSE [res |-> [URL |-> url,
                 ContentType |-> net.contentType,
                 Content |-> IF ContainsHTML(net.contentType)
                                /\ convertHTMLToMarkdown(net.body, conv).err = NilErr
                             THEN convertHTMLToMarkdown(net.body, conv).markdown
                             ELSE net.body,
                 StatusCode |-> net.status],
        err |-> NilErr]

\* m[key] = value of a Go map
MapSet(m, key, value) ==
  [k \in (DOMAIN m) \cup {key} |-> IF k = key THEN value ELSE m[k]]

\* nWorkers: maxWorkers, but not more than URLs
NWorkers(maxWorkers, us) ==
  IF maxWorkers > Len(us) THEN Len(us) ELSE maxWorkers

\* The variables FetchMultipleURLs leaves alone
poolFrame == <<argMaxLength, raw, maxLength, requests, results,
               processedResults, finalErrors, initialAllocation, totalUsed,
               beneficiaries, remainingChars, perURLReallocation, trimVars,
               fetchVars, toolVars, clientVars>>

\* FetchMultipleURLs(urls) of a FetchServer configured with maxWorkers, up to
\* wg.Wait(): the response with its two maps, the jobs channel buffered for
\* len(urls), nWorkers goroutines started, every URL sent, the channel closed
CallFetchMultipleURLs(us, maxWorkers) ==
  /\ pc = "idle"
  /\ urls' = us
  /\ finalResponse' = [Responses |-> EmptyMap, Errors |-> EmptyMap]
  /\ nWorkers' = NWorkers(maxWorkers, us)
  /\ workers' = [w \in 1..nWorkers' |-> "running"]
  /\ jobs' = us
  /\ pc' = "poolWait"
  /\ UNCHANGED <<retErr, poolFrame>>

\* The worker w receives a URL from jobs, fetches it and stores the response
\* or the error string under the mutex
PoolWorkerFetch(w, net, conv) ==
  /\ pc = "poolWait"
  /\ w \in DOMAIN workers
  /\ workers[w] = "running"
  /\ jobs # <<>>
  /\ jobs' = Tail(jobs)
  /\ LET url == Head(jobs)
         r == FetchURL(url, net, conv)
     IN  finalResponse' =
           IF r.err # NilErr
           THEN [finalResponse EXCEPT !.Errors = MapSet(@, url, r.err)]
           ELSE [finalResponse EXCEPT !.Responses = MapSet(@, url, r.res)]
  /\ UNCHANGED <<pc, urls, workers, nWorkers, retErr, poolFrame>>

\* The worker w finds jobs closed and empty: its range loop ends, wg.Done()
PoolWorkerExit(w) ==
  /\ pc = "poolWait"
  /\ w \in DOMAIN workers
  /\ workers[w] = "running"
  /\ jobs = <<>>
  /\ workers' = [workers EXCEPT ![w] = "done"]
  /\ UNCHANGED <<pc, urls, jobs, nWorkers, finalResponse, retErr, poolFrame>>

\* wg.Wait() returns and FetchMultipleURLs returns response, nil
ReturnMultipleURLs ==
  /\ pc = "poolWait"
  /\ Wait(workers)
  /\ retErr' = NilErr
  /\ pc' = "poolReturned"
  /\ UNCHANGED <<urls, workers, jobs, nWorkers, finalResponse, poolFrame>>

\* The values of maxWorkers a FetchServer is configured with, and what the
\* network may do with a GET of a worker
PoolMaxWorkers == (-1)..MaxURLs
PoolNetwork == Behaviour({<<>>}, {<<200, PlainType>>, <<200, HTMLType>>},
                         {MaxLen})

NextPool ==
  \/ \E us \in URLLists, maxWorkers \in PoolMaxWorkers :
       CallFetchMultipleURLs(us, maxWorkers)
  \/ \E w \in 1..MaxURLs, net \in PoolNetwork, conv \in Conversions :
       PoolWorkerFetch(w, net, conv)
  \/ \E w \in 1..MaxURLs : PoolWorkerExit(w)
  \/ ReturnMultipleURLs

\* The scheduling of the pool: every worker started keeps running and every
\* GET ends; the caller goes on once wg.Wait() has returned
PoolFairness ==
  /\ \A w \in 1..MaxURLs :
       /\ WF_vars(\E net \in PoolNetwork, conv \in Conversions :
                     PoolWorkerFetch(w, net, conv))
       /\ WF_vars(PoolWorkerExit(w))
  /\ WF_vars(ReturnMultipleURLs)

SpecPool == Init /\ [][NextPool]_vars /\ PoolFairness

\* ------------------------------------------------------------ tool handlers
\* The handler of the fetch tool up to its call of Fetch: the validation of
\* url, the default of max_length, the call
FetchTool(url, ml, startIndex, r) ==
  /\ pc = "idle"
  /\ tool' = [name |-> "fetch", url |-> url, maxLength |-> ml,
              startIndex |-> startIndex, raw |-> r]
  /\ IF url = ""
     THEN /\ toolResult' = NewToolResultError(<<"URL is required">>)
          /\ pc' = "toolReturned"
          /\ UNCHANGED <<fetchVars, trimVars, clientVars, poolVars, multiVars>>
     ELSE /\ toolResult' = toolResult
          /\ StartFetch(url, IF ml <= 0 THEN DefaultMaxLength ELSE ml,
                        startIndex, r)

\* The handler of the fetch tool after Fetch returned: the error result for
\* an error, else the response marshalled to JSON
FetchToolReturn ==
  /\ pc = "fetchReturned"
  /\ tool # Nil
  /\ toolResult' =
       IF fRet.err # NilErr
       THEN NewToolResultError(<<"failed to fetch URL: ">> \o fRet.err)
       ELSE NewToolResultText(fRet.resp)
  /\ pc' = "toolReturned"
  /\ UNCHANGED <<tool, fetchVars, trimVars, clientVars, poolVars, multiVars>>

\* The requests served: the url of the fetch tool may be missing, max_length
\* is absent (0), negative or the default
ToolURLs == {"", "a", "bad"}
ToolLengths == {-1, 0, DefaultMaxLength}
ToolStarts == {0, 1}

\* The server: the two tools, and FetchMultiple called without a handler
NextTools ==
  \/ \E url \in ToolURLs, ml \in ToolLengths, startIndex \in ToolStarts,
        r \in BOOLEAN : FetchTool(url, ml, startIndex, r)
  \/ \E net \in FetchNetwork : FetchDo(net)
  \/ \E ext \in Extractions : FetchFinish(ext)
  \/ FetchToolReturn
  \/ \E us \in ToolURLLists, ml \in ToolLengths, r \in BOOLEAN :
       FetchMultipleTool(us, ml, r)
  \/ \E us \in URLLists, ml \in ToolLengths, r \in BOOLEAN :
       CallFetchMultiple(us, ml, r)
  \/ \E i \in 1..MaxURLs, net \in MultiNetwork : WorkerFetch(i, net)
  \/ \E ext \in [DOMAIN results -> Extractions] : ProcessResults(ext)
  \/ Allocate
  \/ Reallocate
  \/ ReturnMultiple
  \/ FetchMultipleToolReturn

SpecTools == Init /\ [][NextTools]_vars

\* ================================================================== claims
\* The sum of the content lengths of a map of responses
RECURSIVE ContentTotal(_)
ContentTotal(responses) ==
  IF DOMAIN responses = {} THEN 0
  ELSE LET u == CHOOSE x \in DOMAIN responses : TRUE
       IN  Len(responses[u].Content)
           + ContentTotal([x \in (DOMAIN responses) \ {u} |-> responses[x]])

\* The fetch of the URL of index i succeeded
Succeeded(i) == results[i] # Nil /\ results[i].err = NilErr

\* C1: when FetchMultiple returns, the lengths of the contents of the returned
\* responses add up to at most maxLength (the default when the maxLength
\* passed is <= 0).
C1_TotalWithinBudget ==
  pc = "returned" => ContentTotal(finalResponse.Responses) <= maxLength

\* C2: when FetchMultiple returns, every input URL is a key of exactly one of
\* the two maps: of Responses if its fetch succeeded, of Errors if it failed.
C2_EveryURLInExactlyOneMap ==
  pc = "returned" =>
    \A i \in DOMAIN urls :
      /\ Succeeded(i) => /\ urls[i] \in DOMAIN finalResponse.Responses
                         /\ urls[i] \notin DOMAIN finalResponse.Errors
      /\ ~Succeeded(i) => /\ urls[i] \in DOMAIN finalResponse.Errors
                          /\ urls[i] \notin DOMAIN finalResponse.Responses

\* No URL is passed twice in the list
DistinctURLs == \A i, j \in DOMAIN urls : urls[i] = urls[j] => i = j

\* C3: when FetchMultiple returns, the number of entries of Responses plus the
\* number of entries of Errors is the number of input URLs, and the two key
\* sets are disjoint.  Stated for the lists in which no URL is repeated, the
\* only ones for which two maps keyed by URL can have one entry per input.
C3_EntryCountIsURLCount ==
  (pc = "returned" /\ DistinctURLs) =>
    /\ Cardinality(DOMAIN finalResponse.Responses)
         + Cardinality(DOMAIN finalResponse.Errors) = Len(urls)
    /\ (DOMAIN finalResponse.Responses) \cap (DOMAIN finalResponse.Errors) = {}

\* The content FetchMultiple computed for the successful fetch of index i
ContentOf(i) ==
  LET k == CHOOSE j \in DOMAIN processedResults :
             processedResults[j].OriginalIndex = i - 1
  IN  processedResults[k].FinalTrimmedContent

\* C4: FetchMultiple returns a nil error and a non-nil response whatever URLs
\* failed; the content of every successfully fetched URL is in Responses and
\* the failure of every failed URL is in Errors as its error string (for a
\* URL passed several times: the content, or the error string, of one of its
\* fetches).
C4_FailuresEmbedded ==
  pc = "returned" =>
    /\ retErr = NilErr
    /\ finalResponse # Nil
    /\ \A i \in DOMAIN urls :
         IF Succeeded(i)
         THEN \E u \in DOMAIN finalResponse.Responses, j \in DOMAIN urls :
                /\ urls[j] = urls[i] /\ Succeeded(j)
                /\ finalResponse.Responses[u].Content = ContentOf(j)
         ELSE \E u \in DOMAIN finalResponse.Errors, j \in DOMAIN urls :
                /\ urls[j] = urls[i] /\ ~Succeeded(j)
                /\ finalResponse.Errors[u] = results[j].err

\* A status code outside 200..299
Non2xx(status) == status < 200 \/ status > 299

\* C5: a fetch answered with a non-2xx status is a success: in FetchMultiple
\* its URL is a key of Responses, carrying that status, and not of Errors.
C5_Non2xxIsSuccess ==
  pc = "returned" =>
    \A i \in DOMAIN urls :
      (Succeeded(i) /\ Non2xx(results[i].status)) =>
        /\ urls[i] \in DOMAIN finalResponse.Responses
        /\ urls[i] \notin DOMAIN finalResponse.Errors

\* The reference window of the content window selector, on the integers
RefWindow(content, startIndex, ml) ==
  LET s == Max(startIndex, 0)
  IN  IF s >= Len(content) THEN <<>>
      ELSE IF ml <= 0 THEN SubSeq(content, s + 1, Len(content))
      ELSE SubSeq(content, s + 1, Min(Len(content), s + ml))

\* C6: for every content, startIndex and maxLength, trimContent returns the
\* reference window: empty if max(startIndex, 0) >= len(content), else the
\* content from there to the end if maxLength <= 0 and to
\* min(len(content), start + maxLength) if maxLength > 0.
C6_TrimIsReferenceWindow ==
  pc \in {"trimReturned", "trimPanicked"} =>
    tcResult = RefWindow(tcArgs.content, tcArgs.startIndex, tcArgs.maxLength)

\* C7: the content of a successful Fetch is trimContent of the processed
\* content with the startIndex and maxLength of the caller: it is the run of
\* characters of the processed content that begins at startIndex (at 0 for a
\* negative startIndex), and it is at most maxLength long when maxLength > 0.
C7_FetchTrimsProcessedContent ==
  (pc = "fetchReturned" /\ fRet.err = NilErr) =>
    LET content == fRet.resp.Content
        s == Max(fArgs.startIndex, 0)
    IN  /\ content = trimContent(fProcessed, fArgs.startIndex, fArgs.maxLength)
        /\ fArgs.maxLength > 0 => Len(content) <= fArgs.maxLength
        /\ \A k \in 1..Len(content) :
             s + k <= Len(fProcessed) /\ content[k] = fProcessed[s + k]

\* C7 witness: a Fetch returned a window that starts inside the processed
\* content and was cut at maxLength before its end
C7_Witness ==
  /\ pc = "fetchReturned" /\ fRet.err = NilErr
  /\ fArgs.startIndex > 0 /\ fArgs.maxLength > 0
  /\ Len(fRet.resp.Content) = fArgs.maxLength
  /\ fArgs.startIndex + fArgs.maxLength < Len(fProcessed)

\* The quantities of the allocation as C8 defines them, for the processed
\* results prs and the budget B
ClaimAllocation(prs, B) == GoDiv(B, Len(prs))
ClaimBeneficiaries(prs, B) ==
  {k \in DOMAIN prs : Len(prs[k].FullContent) > ClaimAllocation(prs, B)}
ClaimRemaining(prs, B) ==
  B - SumSeq([k \in DOMAIN prs |->
                Min(Len(prs[k].FullContent), ClaimAllocation(prs, B))])
ClaimBonus(prs, B) ==
  IF ClaimRemaining(prs, B) > 0 /\ ClaimBeneficiaries(prs, B) # {}
  THEN GoDiv(ClaimRemaining(prs, B), Cardinality(ClaimBeneficiaries(prs, B)))
  ELSE 0
\* The first n characters of a content (all of it if it is shorter)
Prefix(content, n) == SubSeq(content, 1, Min(Len(content), n))

\* C8: with n >= 1 successful URLs, a = B div n, the beneficiaries the URLs
\* with a full content longer than a, and remaining = B minus the sum of
\* min(len(full), a): a non-beneficiary is returned with its full content, a
\* beneficiary with the first min(len(full), a + remaining div beneficiaries)
\* characters if remaining > 0, and with the first a characters otherwise.
C8_AllocationFormula ==
  (pc = "returned" /\ Len(processedResults) >= 1) =>
    \A k \in DOMAIN processedResults :
      LET p == processedResults[k]
          a == ClaimAllocation(processedResults, maxLength)
      IN  p.FinalTrimmedContent =
            IF k \notin ClaimBeneficiaries(processedResults, maxLength)
            THEN p.FullContent
            ELSE Prefix(p.FullContent,
                        a + ClaimBonus(processedResults, maxLength))

\* The budget left after the initial trim, and the bonus of a beneficiary
\* computed from it
RemainingAfterInitialTrim ==
  maxLength - SumSeq([k \in DOMAIN processedResults |->
                        Len(trimContent(processedResults[k].FullContent, 0,
                                        initialAllocation))])
BonusOfTheSinglePass ==
  IF RemainingAfterInitialTrim > 0 /\ Len(beneficiaries) > 0
  THEN RemainingAfterInitialTrim \div Len(beneficiaries)
  ELSE 0
\* The processed result of index k is returned cut short
StillTruncated(k) ==
  Len(processedResults[k].FinalTrimmedContent)
    < Len(processedResults[k].FullContent)
\* The budget the returned contents leave unused
Leftover ==
  maxLength - SumSeq([k \in DOMAIN processedResults |->
                        Len(processedResults[k].FinalTrimmedContent)])

C10_TinyBudgetGuaranteesNothing ==
  (pc = "returned" /\ maxLength < Len(processedResults)) =>
    /\ initialAllocation = 0
    /\ \A k \in DOMAIN processedResults :
         (\E b \in DOMAIN beneficiaries : beneficiaries[b] = k)
           <=> processedResults[k].FullContent # <<>>
    /\ \A k \in DOMAIN processedResults :
         Len(processedResults[k].FinalTrimmedContent)
           <= ClaimBonus(processedResults, maxLength)

\* The contents FetchMultiple computes from the full contents full under the
\* budget ml: the initial trim, then the reallocation to the beneficiaries
ServedContents(full, ml) ==
  LET n == Len(full)
      a == InitialAllocation(ml, n)
      first == [k \in 1..n |-> trimContent(full[k], 0, a)]
      ben == {k \in 1..n : Len(full[k]) > a}
      remaining == ml - SumSeq([k \in 1..n |-> Len(first[k])])
  IN  [k \in 1..n |->
         IF remaining > 0 /\ k \in ben
         THEN trimContent(full[k], 0,
                          TargetLength(a, PerURLReallocation(remaining,
                                                             Cardinality(ben))))
         ELSE first[k]]
\* The max_length of the batch request being served
RequestedMaxLength == IF tool # Nil THEN tool.maxLength ELSE argMaxLength
\* A batch request passed its validation and is being, or was, served
Serving ==
  \/ pc \in {"wait", "allocate", "reallocate", "build", "returned"}
  \/ pc = "toolReturned" /\ tool.name = "fetch_multiple" /\ ~toolResult.IsError

\* C11: a batch request with max_length <= 0 is served as the same request
\* with max_length = DefaultMaxLength: the handler passes the default to
\* FetchMultiple, FetchMultiple works with the default whatever it is passed,
\* the initial allocation is computed from the default, and the contents
\* returned are the ones the budget DefaultMaxLength gives.
C11_NonPositiveMaxLengthIsDefault ==
  (Serving /\ (RequestedMaxLength <= 0 \/ RequestedMaxLength = DefaultMaxLength))
    => /\ tool # Nil => argMaxLength = DefaultMaxLength
       /\ maxLength = DefaultMaxLength
       /\ pc \notin {"wait", "allocate"} =>
            initialAllocation
              = InitialAllocation(DefaultMaxLength, Len(processedResults))
       /\ pc \in {"returned", "toolReturned"} =>
            /\ [k \in DOMAIN processedResults |->
                  processedResults[k].FinalTrimmedContent]
                 = ServedContents([k \in DOMAIN processedResults |->
                                     processedResults[k].FullContent],
                                  DefaultMaxLength)
            /\ \A u \in DOMAIN finalResponse.Responses :
                 \E k \in DOMAIN processedResults :
                   finalResponse.Responses[u].Content
                     = processedResults[k].FinalTrimmedContent

\* C11 witness: FetchMultiple was passed a max_length <= 0 and returned a
\* content cut short under the default budget
C11_Witness ==
  /\ pc = "returned" /\ tool = Nil /\ argMaxLength <= 0
  /\ \E k \in DOMAIN processedResults : StillTruncated(k)

\* The number of goroutines of FetchMultiple that are fetching
Running == Cardinality({i \in DOMAIN workers : workers[i] = "running"})

\* C12: while FetchMultiple waits for its goroutines, the number of fetches
\* running at the same time is at most min(maxWorkers, number of URLs).
C12_ConcurrencyBound ==
  pc = "wait" => Running <= Min(MaxWorkers, Len(urls))

\* FetchMultiple is past wg.Wait(): in the loop over results, the allocation,
\* the reallocation or the building of the response
PastBarrier == {"allocate", "reallocate", "build", "returned"}
\* Every goroutine started has finished and written its slot of results
AllWritten ==
  \A i \in DOMAIN urls : workers[i] = "done" /\ results[i] # Nil

\* C13: no step of FetchMultiple after wg.Wait() (the loop over results, the
\* allocation, the reallocation) is taken before every goroutine has finished
\* and written its result; from then on results is not written any more.
C13_AllocatorIsBarrier ==
  /\ [](pc \in PastBarrier => AllWritten)
  /\ [][(pc' \in PastBarrier) => (AllWritten /\ (pc \in PastBarrier =>
                                                    UNCHANGED results))]_vars

\* C13 witness: the allocation is about to run on the results of a full list
\* of URLs, one fetched successfully and one failed
C13_Witness ==
  /\ pc = "allocate" /\ Len(urls) = MaxURLs
  /\ \E i, j \in DOMAIN urls : Succeeded(i) /\ results[j].err # NilErr

\* The stored result from which the processed result of index k was made
StoredResult(k) == results[processedResults[k].OriginalIndex + 1]

\* C14: in one call of FetchMultiple every URL of the list is fetched exactly
\* once.  No index is ever fetched twice; past wg.Wait() each has been fetched
\* once and no step issues another request; the full content is kept as
\* fetched (the body itself when raw), and the content of every trim, the
\* initial one and the one of the reallocation, is cut from the front of it.
C14_FetchedExactlyOnce ==
  /\ [](pc \in {"wait"} \cup PastBarrier =>
          \A i \in DOMAIN urls : requests[i] <= 1)
  /\ [](pc \in PastBarrier => \A i \in DOMAIN urls : requests[i] = 1)
  /\ [](pc \in (PastBarrier \ {"allocate"}) =>
          \A k \in DOMAIN processedResults :
            LET p == processedResults[k]
            IN  /\ raw => p.FullContent = StoredResult(k).body
                /\ p.FinalTrimmedContent
                     = Prefix(p.FullContent, Len(p.FinalTrimmedContent)))
  /\ [][(pc \in PastBarrier) =>
          /\ UNCHANGED <<requests, results>>
          /\ \A k \in DOMAIN processedResults :
               processedResults'[k].FullContent = processedResults[k].FullContent
     ]_vars

\* C14 witness: FetchMultiple returned after a reallocation that gave a URL
\* more than its initial allocation
C14_Witness ==
  /\ pc = "returned" /\ Len(urls) = MaxURLs
  /\ \E k \in DOMAIN processedResults :
       Len(processedResults[k].FinalTrimmedContent) > initialAllocation
       /\ processedResults[k].WasTruncated

\* The error of a fetch stopped by the redirect policy
StoppedByRedirects(err) ==
  \E k \in DOMAIN err : err[k] = ": stopped after 10 redirects"
\* f.fetch of Fetch has returned
Fetched == pc \in {"fetchProcess", "fetchReturned", "fetchPanicked"}

\* C15: a fetch whose GET is redirected at most 10 times is not stopped by
\* the redirect policy, and when it succeeds it returns the response of the
\* last URL of the chain; a fetch redirected more than 10 times ends with an
\* error and Fetch returns no response.
C15_RedirectCap ==
  (Fetched /\ fArgs.urlStr \notin Malformed) =>
    IF Len(fRedirects) <= RedirectLimit
    THEN /\ ~StoppedByRedirects(fResp.err)
         /\ (fResp.err = NilErr /\ fRedirects # <<>>) =>
              fResp.url = fRedirects[Len(fRedirects)]
    ELSE /\ fResp.err # NilErr
         /\ pc = "fetchReturned" /\ fRet.resp = Nil /\ fRet.err = fResp.err

\* C16: for every successful fetch, originalURL is the requested URL if the
\* GET was redirected at least once, whatever the final URL is, and is empty
\* if it was not redirected; Fetch returns it as OriginalURL.
C16_OriginalURLIffRedirected ==
  (Fetched /\ fResp.err = NilErr) =>
    /\ fResp.originalURL = IF fRedirects # <<>> THEN fArgs.urlStr ELSE ""
    /\ pc = "fetchReturned" => fRet.resp.OriginalURL = fResp.originalURL

\* The context message and the cause of a wrapped error
Context(err) == err[1]
Cause(err) == SubSeq(err, 3, Len(err))
\* The stage of fetch at which a cause arises: http.NewRequest fails with a
\* parse error, client.Do with an error of the GET, io.ReadAll with the error
\* of the read
StageOf(cause) ==
  IF cause[1] = "parse " THEN CreateFailed
  ELSE IF cause[1] = "Get " THEN ExecuteFailed
  ELSE ReadFailed

\* C17: a failed fetch is reported as one wrapped error whose context message
\* is the one of the stage that failed ('failed to create request', 'failed
\* to execute request', 'failed to read response body'); its message is the
\* context, ': ' and the message of the cause, the cause is kept in it, and
\* Fetch returns a nil response with that error.
C17_ThreeWrappedErrors ==
  (Fetched /\ fResp.err # NilErr) =>
    LET err == fResp.err
    IN  /\ Len(err) >= 3
        /\ Context(err) \in {CreateFailed, ExecuteFailed, ReadFailed}
        /\ Cause(err) # NilErr
        /\ Context(err) = StageOf(Cause(err))
        /\ err = <<Context(err), ": ">> \o Cause(err)
        /\ (fArgs.urlStr \in Malformed) <=> (Context(err) = CreateFailed)
        /\ pc = "fetchReturned" /\ fRet.resp = Nil /\ fRet.err = err

\* C17 witness: a Fetch failed at the read of the body of a redirected GET
C17_Witness ==
  /\ pc = "fetchReturned" /\ fRet.err # NilErr
  /\ Context(fRet.err) = ReadFailed /\ fRedirects # <<>>

\* C18: when raw is true, whatever the content type, and when raw is false
\* and the content type does not contain "text/html", the processed content
\* of Fetch is the body of the response unchanged, and the content returned
\* is the trimming window of the body.
C18_RawAndNonHTMLPassThrough ==
  (/\ pc \in {"fetchReturned", "fetchPanicked"} /\ fResp.err = NilErr
   /\ (fArgs.raw \/ ~ContainsHTML(fResp.contentType))) =>
    /\ fProcessed = fResp.body
    /\ pc = "fetchReturned" =>
         fRet.resp.Content
           = trimContent(fResp.body, fArgs.startIndex, fArgs.maxLength)

\* C18 witness: a raw Fetch of an HTML page returned a window of its body
C18_Witness ==
  /\ pc = "fetchReturned" /\ fRet.err = NilErr
  /\ fArgs.raw /\ ContainsHTML(fResp.contentType)
  /\ fRet.resp.Content # <<>> /\ Len(fRet.resp.Content) < Len(fResp.body)

\* The content of FetchServer.FetchURL for an HTML body when raw is false:
\* the processed content, or when the processing fails the Markdown of the
\* body, or when that conversion fails too the body
FallbackChain(content, ext, conv) ==
  IF ext # "fails" THEN processHTMLContent(content, ext)
  ELSE IF convertHTMLToMarkdown(content, conv).err # NilErr THEN content
  ELSE convertHTMLToMarkdown(content, conv).markdown

\* C19: the processed content of a Fetch of HTML with raw false is the one of
\* the fallback chain, whatever the extraction and the direct conversion do:
\* the extracted article, or if the extraction fails the Markdown of the
\* original body, or only if that conversion fails too the body itself; and
\* the Fetch returns a response and no error.
C19_FallbackChain ==
  (/\ pc \in {"fetchReturned", "fetchPanicked"} /\ fResp.err = NilErr
   /\ ~fArgs.raw /\ ContainsHTML(fResp.contentType)) =>
    /\ \A conv \in Conversions :
         \E ext \in Extractions :
           fProcessed = FallbackChain(fResp.body, ext, conv)
    /\ pc = "fetchReturned" => (fRet.err = NilErr /\ fRet.resp # Nil)

\* The request served has a caller-input error: the fetch tool without a
\* url, the fetch_multiple tool without URLs or with more than maxURLs
InvalidRequest(t) ==
  IF t.name = "fetch" THEN t.url = ""
  ELSE Len(t.urls) = 0 \/ Len(t.urls) > MaxURLs
\* Neither Fetch nor FetchMultiple has been entered, and no GET was issued
NothingInvoked ==
  /\ fArgs = Nil /\ fResp = Nil /\ fRet.resp = Nil /\ fRet.err = NilErr
  /\ urls = <<>> /\ workers = <<>> /\ requests = <<>> /\ results = <<>>
  /\ finalResponse = Nil

\* C20: a request with a caller-input error is answered at once with an error
\* result, Fetch and FetchMultiple not being invoked, before or after; any
\* other request, one of exactly maxURLs URLs included, is passed to Fetch or
\* to FetchMultiple with its URLs.
C20_InputErrorsBeforeNetwork ==
  /\ [](tool # Nil =>
          IF InvalidRequest(tool)
          THEN pc = "toolReturned" /\ toolResult.IsError /\ NothingInvoked
          ELSE IF tool.name = "fetch"
          THEN fArgs # Nil /\ fArgs.urlStr = tool.url
          ELSE /\ urls = tool.urls
               /\ pc = "toolReturned" => ~toolResult.IsError)
  /\ [][(tool' # Nil /\ InvalidRequest(tool')) =>
          UNCHANGED <<fetchVars, multiVars>>]_vars

\* C20 witness: the fetch_multiple tool rejected a list of maxURLs + 1 URLs
C20_Witness ==
  /\ pc = "toolReturned" /\ tool.name = "fetch_multiple"
  /\ Len(tool.urls) = MaxURLs + 1
  /\ toolResult.IsError /\ NothingInvoked

\* C21: the budget of a batch is first divided equally among all the URLs of
\* the request: once the allocation is computed for a batch in which a fetch
\* succeeded, initialAllocation is maxLength divided by the number of URLs
\* passed (3000 for 3 URLs and a max_length of 9000).
C21_EqualShareOfAllURLs ==
  (pc \in {"reallocate", "build", "returned"} /\ Len(processedResults) >= 1) =>
    initialAllocation = GoDiv(maxLength, Len(urls))

\* C22: a fetch leaves the state shared between calls as it found it: once
\* every fetch of a FetchMultiple call has returned, with success or with
\* an error, the CheckRedirect of the client of the fetcher is the one it
\* was before the call (nil, as NewHTTPFetcher leaves it).
C22_FetchRestoresSharedState ==
  pc \in PastBarrier => checkRedirect = 0

\* C23: in a FetchMultiple call every slot of results is written exactly
\* once, by the goroutine started for its index: a step writes at most one
\* slot, that slot was not written before and the writer is the goroutine of
\* its index, which finishes with the write; a slot is written exactly when
\* its goroutine is done, and none is nil once wg.Wait() has returned.
C23_SlotsWrittenOnce ==
  /\ [][\A j \in DOMAIN results :
          results'[j] # results[j] =>
            /\ results[j] = Nil
            /\ workers[j] # "done" /\ workers'[j] = "done"
            /\ \A k \in DOMAIN results : k # j => results'[k] = results[k]
            /\ \A k \in DOMAIN workers : k # j => workers'[k] = workers[k]]_vars
  /\ [](\A j \in DOMAIN results : (results[j] # Nil) <=> (workers[j] = "done"))
  /\ [](pc \in PastBarrier => \A j \in DOMAIN results : results[j] # Nil)

\* C23 witness: two goroutines were fetching at the same time, and both slots
\* are written at the barrier
C23_Witness ==
  /\ pc = "allocate" /\ Len(urls) = MaxURLs
  /\ \A j \in DOMAIN results : results[j] # Nil
  /\ Cardinality({origCheckRedirect[j] : j \in DOMAIN origCheckRedirect}) > 1

\* A FetchMultiple call that has started returns
MultipleReturns == (pc = "wait") ~> (pc = "returned")

\* C24: sibling fetches are not cancelled.  When every fetch ends, a
\* FetchMultiple call that has started returns; and when it returns the fetch
\* of every URL has run to its end and is reported, whatever happened to the
\* other URLs: the content of a successful one is in Responses, the error of
\* a failed one is in Errors.
C24_NoCancellation ==
  /\ MultipleReturns
  /\ [](pc = "returned" =>
          \A i \in DOMAIN urls :
            /\ results[i] # Nil
            /\ IF Succeeded(i)
               THEN \E u \in DOMAIN finalResponse.Responses :
                      finalResponse.Responses[u].Content = ContentOf(i)
               ELSE \E u \in DOMAIN finalResponse.Errors :
                      finalResponse.Errors[u] = results[i].err)

\* C25: trimContent never panics, for any content and any machine integers
\* startIndex and maxLength, those whose sum overflows included: it returns
\* the characters from max(startIndex, 0) to an end index that lies between
\* that start and len(content).
C25_TrimNeverPanics ==
  pc \in {"trimReturned", "trimPanicked"} =>
    /\ pc = "trimReturned" /\ tcResult # Panic
    /\ LET start == Max(tcArgs.startIndex, 0)
       IN  start < Len(tcArgs.content) =>
             \E endIndex \in start..Len(tcArgs.content) :
               tcResult = SubSeq(tcArgs.content, start + 1, endIndex)

\* C26: FetchMultipleURLs runs at least one worker whatever maxWorkers is
\* configured, 0 and the negative values included: for a non-empty URL list a
\* worker is running while the call waits, the call returns, and when it
\* returns every URL of the list is a key of Responses or of Errors.
C26_PoolRunsAtLeastOneWorker ==
  /\ [](pc = "poolWait" /\ urls # <<>> => Len(workers) >= 1)
  /\ (pc = "poolWait") ~> (pc = "poolReturned")
  /\ [](pc = "poolReturned" =>
          /\ jobs = <<>>
          /\ \A i \in DOMAIN urls :
               urls[i] \in (DOMAIN finalResponse.Responses)
                             \cup (DOMAIN finalResponse.Errors))

\* What Fetch(urls[1], argMaxLength, 0, raw) returns for the request that
\* FetchMultiple made for its only URL and the content it processed
FetchOfTheSame ==
  [URL |-> urls[1],
   ContentType |-> results[1].contentType,
   Content |-> trimContent(processedResults[1].FullContent, 0, argMaxLength),
   StatusCode |-> results[1].status,
   OriginalURL |-> results[1].originalURL]

\* C27: for a batch of exactly one URL and maxLength > 0, a successful
\* FetchMultiple returns under the requested URL the entry that Fetch(url,
\* maxLength, 0, raw) returns: same url, content, content type, status code
\* and originalURL, also when the request was redirected.
C27_SingleBatchEqualsFetch ==
  (pc = "returned" /\ Len(urls) = 1 /\ argMaxLength > 0 /\ Succeeded(1)) =>
    /\ urls[1] \in DOMAIN finalResponse.Responses
    /\ finalResponse.Responses[urls[1]] = FetchOfTheSame

====
